---- MODULE Spec2Model ----
(***************************************************************************)
(* Model of streamlit_app.py: the title quality analyzer, the title        *)
(* variant generator, and the Streamlit page that keeps the catalog, the   *)
(* generated variants and the A/B counters in the session state.           *)
(*                                                                         *)
(* A Python str is a sequence of one-character strings.  The cells of the  *)
(* product feed are str values (a column the feed lacks is a key the row   *)
(* lacks); cells pandas would load as NaN or as numbers are outside the    *)
(* inputs enumerated here.  A float ctr is the exact fraction it rounds,   *)
(* in lowest terms: for counters of this size two fractions compare as     *)
(* their floats do.                                                        *)
(***************************************************************************)
EXTENDS Integers, Sequences, FiniteSets, TLC

VARIABLES
    pc,          \* which run this is and where it stands
    title_in,    \* analyzer run: the title handed to analyze_title_quality
    analysis,    \* analyzer run: the (score, issues) it returned
    product_in,  \* generator run: the product handed to generate_title_variants
    generated,   \* generator run: the list it returned
    products,    \* st.session_state.products (NoProducts for None, or the rows)
    variants,    \* st.session_state.variants: product id -> list of variants
    test_data,   \* st.session_state.test_data: product id -> dict formula -> counters
    widgets,     \* the values of the keyed number_input widgets of the page
    winner,      \* the winner banner shown under each product in the last run
    pressed,     \* the product whose Generate Variants click started the last
                 \* script run ({} when another event started it)
    edits        \* number of counter edits made so far

vars == <<pc, title_in, analysis, product_in, generated, products, variants,
          test_data, widgets, winner, pressed, edits>>

---------------------------------------------------------------------------
(* Python str and builtins *)

None == "None_"

Max(a, b) == IF a >= b THEN a ELSE b
Min(a, b) == IF a <= b THEN a ELSE b

UpperChars == <<"A", "B", "C", "D", "E", "F", "G", "H", "I", "J", "K", "L", "M",
                "N", "O", "P", "Q", "R", "S", "T", "U", "V", "W", "X", "Y", "Z">>
LowerChars == <<"a", "b", "c", "d", "e", "f", "g", "h", "i", "j", "k", "l", "m",
                "n", "o", "p", "q", "r", "s", "t", "u", "v", "w", "x", "y", "z">>
Digits == <<"0", "1", "2", "3", "4", "5", "6", "7", "8", "9">>

UpperSet == {UpperChars[i] : i \in 1..26}
LowerSet == {LowerChars[i] : i \in 1..26}

\* the lower-case letter of each upper-case letter, and the reverse
ToLower == [c \in UpperSet |-> LowerChars[CHOOSE i \in 1..26 : UpperChars[i] = c]]
ToUpper == [c \in LowerSet |-> UpperChars[CHOOSE i \in 1..26 : LowerChars[i] = c]]

IsUpperChar(c) == c \in UpperSet
IsLowerChar(c) == c \in LowerSet

\* str.lower() on one character
LowerChar(c) == IF c \in UpperSet THEN ToLower[c] ELSE c

\* str.upper() on one character
UpperChar(c) == IF c \in LowerSet THEN ToUpper[c] ELSE c

\* s.lower()
Lower(s) == [i \in 1..Len(s) |-> LowerChar(s[i])] \o <<>>

\* s.upper()
Upper(s) == [i \in 1..Len(s) |-> UpperChar(s[i])] \o <<>>

\* s.isupper(): no lower-case character and at least one cased character
IsUpper(s) ==
    /\ \A i \in 1..Len(s) : ~IsLowerChar(s[i])
    /\ \E i \in 1..Len(s) : IsUpperChar(s[i])

\* w in s
Contains(w, s) ==
    \E i \in 1..(Len(s) - Len(w) + 1) :
        \A j \in 1..Len(w) : s[i + j - 1] = w[j]

\* s[:n]
Take(s, n) == SubSeq(s, 1, Min(n, Len(s)))

\* str(n) for n >= 0
RECURSIVE IntToStr(_)
IntToStr(n) ==
    IF n < 10 THEN <<Digits[n + 1]>>
    ELSE IntToStr(n \div 10) \o <<Digits[(n % 10) + 1]>>

\* sep.join(parts)
RECURSIVE Join(_, _)
Join(sep, parts) ==
    IF parts = <<>> THEN <<>>
    ELSE IF Len(parts) = 1 THEN parts[1]
    ELSE parts[1] \o sep \o Join(sep, Tail(parts))

\* a string of n copies of c
Fill(c, n) == [i \in 1..n |-> c] \o <<>>

---------------------------------------------------------------------------
(* TITLE_RULES and analyze_title_quality *)

max_length == 150
optimal_min == 70

avoid_words ==
    << <<"s", "a", "l", "e">>,
       <<"f", "r", "e", "e", " ", "s", "h", "i", "p", "p", "i", "n", "g">>,
       <<"b", "e", "s", "t">>,
       <<"c", "h", "e", "a", "p">>,
       <<"b", "u", "y", " ", "n", "o", "w">>,
       <<"n", "e", "w">>,
       <<"h", "o", "t">>,
       <<"!">> >>

\* f"Exceeds {TITLE_RULES['max_length']} chars ({len(title)})"
ExceedsMsg(n) ==
    <<"E", "x", "c", "e", "e", "d", "s", " ">> \o IntToStr(max_length)
        \o <<" ", "c", "h", "a", "r", "s", " ", "(">> \o IntToStr(n) \o <<")">>

\* f"Under optimal length ({len(title)} < 70)"
UnderMsg(n) ==
    <<"U", "n", "d", "e", "r", " ", "o", "p", "t", "i", "m", "a", "l", " ",
      "l", "e", "n", "g", "t", "h", " ", "(">> \o IntToStr(n)
        \o <<" ", "<", " ", "7", "0", ")">>

\* f'Contains "{word}"'
ContainsMsg(word) ==
    <<"C", "o", "n", "t", "a", "i", "n", "s", " ", "\"">> \o word \o <<"\"">>

AllCapsMsg == <<"A", "v", "o", "i", "d", " ", "A", "L", "L", " ", "C", "A", "P", "S">>

ExclamationMsg ==
    <<"R", "e", "m", "o", "v", "e", " ", "e", "x", "c", "l", "a", "m", "a", "t",
      "i", "o", "n", " ", "m", "a", "r", "k", "s">>

\* the length check with both comparisons off by one (>= and <=)
LengthCheckOffByOne(title, acc) ==
    IF Len(title) >= max_length
    THEN [issues |-> Append(acc.issues, ExceedsMsg(Len(title))),
          score |-> acc.score - 30]
    ELSE IF Len(title) <= optimal_min
    THEN [issues |-> Append(acc.issues, UnderMsg(Len(title))),
          score |-> acc.score - 10]
    ELSE acc

\* Length check
LengthCheck(title, acc) ==
    IF Len(title) > max_length
    THEN [issues |-> Append(acc.issues, ExceedsMsg(Len(title))),
          score |-> acc.score - 30]
    ELSE IF Len(title) < optimal_min
    THEN [issues |-> Append(acc.issues, UnderMsg(Len(title))),
          score |-> acc.score - 10]
    ELSE acc

\* the banned-word loop stopping at the first word found
RECURSIVE BannedWordsFirstOnly(_, _, _)
BannedWordsFirstOnly(title_lower, acc, i) ==
    IF i > Len(avoid_words) THEN acc
    ELSE IF Contains(avoid_words[i], title_lower)
    THEN [issues |-> Append(acc.issues, ContainsMsg(avoid_words[i])),
          score |-> acc.score - 15]
    ELSE BannedWordsFirstOnly(title_lower, acc, i + 1)

\* Check for banned words: the loop over TITLE_RULES['avoid_words'] from word i on
RECURSIVE BannedWordsCheck(_, _, _)
BannedWordsCheck(title_lower, acc, i) ==
    IF i > Len(avoid_words) THEN acc
    ELSE BannedWordsCheck(
            title_lower,
            IF Contains(avoid_words[i], title_lower)
            THEN [issues |-> Append(acc.issues, ContainsMsg(avoid_words[i])),
                  score |-> acc.score - 15]
            ELSE acc,
            i + 1)

\* Check capitalization
CapsCheck(title, acc) ==
    IF IsUpper(title) /\ Len(title) > 10
    THEN [issues |-> Append(acc.issues, AllCapsMsg), score |-> acc.score - 10]
    ELSE acc

\* Check for excessive symbols
SymbolCheck(title, acc) ==
    IF Contains(<<"!">>, title)
    THEN [issues |-> Append(acc.issues, ExclamationMsg), score |-> acc.score - 5]
    ELSE acc

\* the checks in the order of the code, from issues = [] and score = 100
RunChecks(title) ==
    LET a0 == [issues |-> <<>>, score |-> 100]
        a1 == LengthCheck(title, a0)
        title_lower == Lower(title)
        a2 == BannedWordsCheck(title_lower, a1, 1)
        a3 == CapsCheck(title, a2)
    IN  SymbolCheck(title, a3)

\* the return statement without the floor at 0
ReturnUnclamped(acc) == [score |-> acc.score, issues |-> acc.issues]

\* return max(score, 0), issues
ReturnClamped(acc) == [score |-> Max(acc.score, 0), issues |-> acc.issues]

analyze_title_quality(title) == ReturnClamped(RunChecks(title))

---------------------------------------------------------------------------
(* generate_title_variants *)

\* product.get(key, '')
Get(product, key) == IF key \in DOMAIN product THEN product[key] ELSE <<>>

\* a or b, on str values
Or(a, b) == IF a # <<>> THEN a ELSE b

\* parts.append(x) under "if x:"
AppendIf(parts, x) == IF x # <<>> THEN Append(parts, x) ELSE parts

\* '; '.join(issues) if issues else 'None'
IssuesField(issues) ==
    IF issues # <<>> THEN Join(<<";", " ">>, issues) ELSE <<"N", "o", "n", "e">>

\* composed[:150]
Truncate(composed) == Take(composed, max_length)

\* the dict with the analysis of the composed string, not of the stored title
VariantOfComposed(formula, description, composed) ==
    LET vn_title == Truncate(composed)
        a == analyze_title_quality(composed)
    IN  [formula |-> formula, title |-> vn_title, description |-> description,
         score |-> a.score, issues |-> IssuesField(a.issues),
         length |-> Len(vn_title)]

\* vN_title = composed[:150]; score, issues = analyze_title_quality(vN_title);
\* the dict appended to variants
Variant(formula, description, composed) ==
    LET vn_title == Truncate(composed)
        a == analyze_title_quality(vn_title)
    IN  [formula |-> formula, title |-> vn_title, description |-> description,
         score |-> a.score, issues |-> IssuesField(a.issues),
         length |-> Len(vn_title)]

brand_of(product) == Get(product, "brand")
title_of(product) == Get(product, "title")
color_of(product) == Get(product, "color")
size_of(product) == Get(product, "size")
material_of(product) == Get(product, "material")
product_type_of(product) ==
    Or(Get(product, "product_type"), Get(product, "google_product_category"))

\* the string Variant 1 composes, the size left out
BrandFirstTextNoSize(product) ==
    LET parts == AppendIf(<<brand_of(product), title_of(product)>>, color_of(product))
    IN  Join(<<" ", "-", " ">>, parts)

\* the string Variant 1 composes: ' - '.join(parts)
BrandFirstText(product) ==
    LET parts == AppendIf(AppendIf(<<brand_of(product), title_of(product)>>,
                                   color_of(product)), size_of(product))
    IN  Join(<<" ", "-", " ">>, parts)

\* Variant 1: Brand First
BrandFirst(product) ==
    IF brand_of(product) # <<>> /\ title_of(product) # <<>>
    THEN <<Variant("Brand First", "Google recommended structure",
                   BrandFirstText(product))>>
    ELSE <<>>

\* the string Variant 2 composes: ' - '.join(parts)
ProductFirstText(product) ==
    LET parts == AppendIf(AppendIf(<<title_of(product), brand_of(product)>>,
                                   color_of(product)), size_of(product))
    IN  Join(<<" ", "-", " ">>, parts)

\* Variant 2: Product First
ProductFirst(product) ==
    IF title_of(product) # <<>> /\ brand_of(product) # <<>>
    THEN <<Variant("Product First", "Product name leading",
                   ProductFirstText(product))>>
    ELSE <<>>

\* the parts of Variant 3
AttributeParts(product) ==
    AppendIf(AppendIf(AppendIf(AppendIf(AppendIf(<<>>,
        brand_of(product)), product_type_of(product)), color_of(product)),
        size_of(product)), material_of(product))

\* the string Variant 3 composes: ' - '.join(parts)
AttributeText(product) == Join(<<" ", "-", " ">>, AttributeParts(product))

\* Variant 3 emitted from two parts on
AttributeRichFromTwo(product) ==
    IF Len(AttributeParts(product)) >= 2
    THEN <<Variant("Attribute Rich", "Maximum attributes", AttributeText(product))>>
    ELSE <<>>

\* Variant 3: Attribute Rich
AttributeRich(product) ==
    IF Len(AttributeParts(product)) >= 3
    THEN <<Variant("Attribute Rich", "Maximum attributes", AttributeText(product))>>
    ELSE <<>>

\* the string Variant 4 composes: ' | '.join(parts)
CompactText(product) ==
    LET parts == AppendIf(AppendIf(<<brand_of(product), title_of(product)>>,
                                   color_of(product)), size_of(product))
    IN  Join(<<" ", "|", " ">>, parts)

\* Variant 4 emitted for a brand alone
CompactBrandOnly(product) ==
    IF brand_of(product) # <<>>
    THEN <<Variant("Compact", "Space-efficient format", CompactText(product))>>
    ELSE <<>>

\* Variant 4: Compact (Pipe separator)
Compact(product) ==
    IF brand_of(product) # <<>> /\ title_of(product) # <<>>
    THEN <<Variant("Compact", "Space-efficient format", CompactText(product))>>
    ELSE <<>>

\* the string Variant 5 composes
NaturalText(product) ==
    LET n0 == brand_of(product) \o <<" ">> \o title_of(product)
        n1 == IF color_of(product) # <<>>
              THEN n0 \o <<" ", "i", "n", " ">> \o color_of(product) ELSE n0
    IN  IF size_of(product) # <<>>
        THEN n1 \o <<",", " ">> \o size_of(product) ELSE n1

\* Variant 5: Natural Language
SeoNatural(product) ==
    IF brand_of(product) # <<>> /\ title_of(product) # <<>>
    THEN <<Variant("SEO Natural", "Natural language format", NaturalText(product))>>
    ELSE <<>>

\* the five formula names, in the order the variants are appended
AllFormulaNames ==
    <<"Brand First", "Product First", "Attribute Rich", "Compact", "SEO Natural">>

generate_title_variants(product) ==
    BrandFirst(product) \o ProductFirst(product) \o AttributeRich(product)
        \o Compact(product) \o SeoNatural(product)

---------------------------------------------------------------------------
(* The session state before anything is uploaded (Initialize session state) *)

EmptyDict == <<>>

\* st.session_state.products = None
NoProducts == [loaded |-> FALSE, rows |-> <<>>]

\* st.session_state.products = df
Loaded(rows) == [loaded |-> TRUE, rows |-> rows]

\* what is shown under a product: no banner, the winner banner, or the
\* KeyError of an entry read without 'ctr'
NoBanner == [kind |-> "none"]
KeyErrorShown == [kind |-> "KeyError"]
WinnerBanner(formula, ctr) == [kind |-> "winner", formula |-> formula, ctr |-> ctr]

SessionInit ==
    /\ products = NoProducts
    /\ variants = EmptyDict
    /\ test_data = EmptyDict
    /\ widgets = EmptyDict
    /\ winner = EmptyDict
    /\ pressed = {}
    /\ edits = 0

SessionVars == <<products, variants, test_data, widgets, winner, pressed, edits>>

---------------------------------------------------------------------------
(* Runs of analyze_title_quality on enumerated titles *)

MaxWords == 4
LenSlack == 1

\* the sets of banned words a title is built from
WordSets == {S \in SUBSET (1..Len(avoid_words)) : Cardinality(S) <= MaxWords}

\* the words of S, by index, separated by blanks
RECURSIVE WordsText(_)
WordsText(S) ==
    IF S = {} THEN <<>>
    ELSE LET i == CHOOSE k \in S : \A m \in S : k <= m
         IN  IF S = {i} THEN avoid_words[i]
             ELSE avoid_words[i] \o <<" ">> \o WordsText(S \ {i})

\* lengths around the thresholds of the length and all-caps checks
TitleLens ==
    {0} \cup ((10 - LenSlack)..(10 + LenSlack))
        \cup ((optimal_min - LenSlack)..(optimal_min + LenSlack))
        \cup ((max_length - LenSlack)..(max_length + LenSlack))

FillChars == {"x", "X", "7"}

PadTo(s, c, n) == s \o Fill(c, Max(0, n - Len(s)))

SpecExampleTitle ==
    <<"S", "A", "L", "E", "!", "!", "!", " ", "B", "E", "S", "T", " ", "D", "E", "A", "L">>

Titles ==
    {PadTo(WordsText(S), c, n) : S \in WordSets, c \in FillChars, n \in TitleLens}
        \cup {PadTo(Upper(WordsText(S)), c, n) :
                S \in WordSets, c \in FillChars, n \in TitleLens}
        \cup {SpecExampleTitle}

InitAnalyze ==
    /\ pc = "analyze"
    /\ title_in \in Titles
    /\ analysis = None
    /\ product_in = None
    /\ generated = None
    /\ SessionInit

\* score, issues = analyze_title_quality(title)
Analyze ==
    /\ pc = "analyze"
    /\ analysis' = analyze_title_quality(title_in)
    /\ pc' = "analyzed"
    /\ UNCHANGED <<title_in, product_in, generated, SessionVars>>

NextAnalyze == Analyze

SpecAnalyze == InitAnalyze /\ [][NextAnalyze]_vars

---------------------------------------------------------------------------
(* Runs of generate_title_variants on enumerated product records *)

LongTitleLen == 140

Absent == "Absent_"

Nike == <<"N", "i", "k", "e">>
RunningShoe == <<"R", "u", "n", "n", "i", "n", "g", " ", "S", "h", "o", "e">>
Shoe == <<"S", "h", "o", "e">>
Red == <<"R", "e", "d">>
Ten == <<"1", "0">>
Mesh == <<"M", "e", "s", "h">>
Shoes == <<"S", "h", "o", "e", "s">>
Apparel == <<"A", "p", "p", "a", "r", "e", "l">>
LongTitle == <<"T", "r", "a", "i", "l", " ">> \o Fill("x", LongTitleLen - 6)

FieldNames ==
    <<"brand", "title", "color", "size", "material", "product_type",
      "google_product_category">>

\* the dict holding the keys whose choice is not Absent
Record(choice) ==
    [k \in {FieldNames[i] : i \in {j \in 1..Len(FieldNames) : choice[j] # Absent}} |->
        choice[CHOOSE i \in 1..Len(FieldNames) : FieldNames[i] = k]]

ProductInputs ==
    {Record(<<b, t, c, z, m, pt, g>>) :
        b \in {Absent, <<>>, Nike},
        t \in {Absent, RunningShoe, Shoe, LongTitle},
        c \in {Absent, Red},
        z \in {Absent, Ten},
        m \in {Absent, Mesh},
        pt \in {Absent, <<>>, Shoes},
        g \in {Absent, Apparel}}

InitGenerate ==
    /\ pc = "generate"
    /\ product_in \in ProductInputs
    /\ generated = None
    /\ title_in = None
    /\ analysis = None
    /\ SessionInit

\* variants = generate_title_variants(product)
Generate ==
    /\ pc = "generate"
    /\ generated' = generate_title_variants(product_in)
    /\ pc' = "generated"
    /\ UNCHANGED <<title_in, analysis, product_in, SessionVars>>

NextGenerate == Generate

SpecGenerate == InitGenerate /\ [][NextGenerate]_vars

---------------------------------------------------------------------------
(* The page: one run of the script per user event *)

\* an insertion-ordered dict is a sequence of <<key, value>> pairs
OdHas(d, k) == \E i \in 1..Len(d) : d[i][1] = k
OdGet(d, k) == d[CHOOSE i \in 1..Len(d) : d[i][1] = k][2]
OdKeys(d) == [i \in 1..Len(d) |-> d[i][1]] \o <<>>

\* d[k] = v: an existing key keeps its place, a new key goes last
OdSet(d, k, v) ==
    IF OdHas(d, k)
    THEN [i \in 1..Len(d) |-> IF d[i][1] = k THEN <<k, v>> ELSE d[i]] \o <<>>
    ELSE Append(d, <<k, v>>)

\* d[k] = v on a dict keyed by product id or widget key
DictSet(d, k, v) == [x \in DOMAIN d \cup {k} |-> IF x = k THEN v ELSE d[x]]

\* df['id'] = [f'product_{i+1}' for i in range(len(df))]
ProductId(i) == <<"p", "r", "o", "d", "u", "c", "t", "_">> \o IntToStr(i)

\* the rows with the 'id' column added when the feed has none
WithIds(rows) ==
    [i \in 1..Len(rows) |->
        IF "id" \in DOMAIN rows[i] THEN rows[i]
        ELSE [k \in DOMAIN rows[i] \cup {"id"} |->
                IF k = "id" THEN ProductId(i) ELSE rows[i][k]]]

\* the try block of the upload: the parsed feed, or the old products on an exception
LoadFeed(file, old_products) ==
    IF file.readable THEN Loaded(WithIds(file.rows)) ELSE old_products

\* product_id = row.get('id', f'product_{idx}'), idx the 0-based index
RowId(rows, i) ==
    IF "id" \in DOMAIN rows[i] THEN rows[i]["id"] ELSE ProductId(i - 1)

\* st.session_state.test_data.get(product_id, {}).get(formula, {}).get(field, 0)
StoredCounter(td, product_id, formula, field) ==
    IF product_id \in DOMAIN td /\ OdHas(td[product_id], formula)
                                /\ field \in DOMAIN OdGet(td[product_id], formula)
    THEN OdGet(td[product_id], formula)[field]
    ELSE 0

\* st.number_input(..., value=value, key=key): the widget keeps the value the
\* user gave it under its key; value is what it shows when first rendered
NumberInput(R, key, value) == IF key \in DOMAIN R.widgets THEN R.widgets[key] ELSE value

RECURSIVE Gcd(_, _)
Gcd(a, b) == IF b = 0 THEN a ELSE Gcd(b, a % b)

\* ctr = (clicks / impressions * 100) if impressions > 0 else 0
Ctr(clicks, impressions) ==
    IF impressions > 0
    THEN LET g == Gcd(clicks * 100, impressions)
         IN  <<(clicks * 100) \div g, impressions \div g>>
    ELSE <<0, 1>>

\* a > b on ctr values
Greater(a, b) == a[1] * b[2] > b[1] * a[2]

\* the three number inputs of one variant and the update of test_data
RenderVariant(R, product_id, formula) ==
    LET imp_key == <<"imp", product_id, formula>>
        click_key == <<"click", product_id, formula>>
        conv_key == <<"conv", product_id, formula>>
        impressions ==
            NumberInput(R, imp_key, StoredCounter(R.test_data, product_id, formula, "impressions"))
        clicks ==
            NumberInput(R, click_key, StoredCounter(R.test_data, product_id, formula, "clicks"))
        ctr == Ctr(clicks, impressions)
        conversions ==
            NumberInput(R, conv_key, StoredCounter(R.test_data, product_id, formula, "conversions"))
        td0 == IF product_id \notin DOMAIN R.test_data
               THEN DictSet(R.test_data, product_id, <<>>)
               ELSE R.test_data
        entry == [impressions |-> impressions, clicks |-> clicks, ctr |-> ctr,
                  conversions |-> conversions]
    IN  [R EXCEPT !.test_data = DictSet(td0, product_id, OdSet(td0[product_id], formula, entry)),
                  !.widgets = DictSet(DictSet(DictSet(R.widgets, imp_key, impressions),
                                              click_key, clicks), conv_key, conversions),
                  !.rendered = @ \cup {imp_key, click_key, conv_key}]

\* for variant in st.session_state.variants[product_id], from variant i on
RECURSIVE RenderVariants(_, _, _)
RenderVariants(R, product_id, i) ==
    IF i > Len(R.variants[product_id]) THEN R
    ELSE RenderVariants(RenderVariant(R, product_id, R.variants[product_id][i].formula),
                        product_id, i + 1)

\* the winner loop taking the later formula on a tie (>=)
RECURSIVE WinnerLoopLastOnTie(_, _, _, _)
WinnerLoopLastOnTie(items, i, max_ctr, best) ==
    IF i > Len(items) THEN [winner |-> best, max_ctr |-> max_ctr]
    ELSE IF "ctr" \notin DOMAIN items[i][2] THEN [winner |-> "KeyError", max_ctr |-> max_ctr]
    ELSE IF ~Greater(max_ctr, items[i][2].ctr)
    THEN WinnerLoopLastOnTie(items, i + 1, items[i][2].ctr, items[i][1])
    ELSE WinnerLoopLastOnTie(items, i + 1, max_ctr, best)

\* for formula, data in test_data.items(): if data['ctr'] > max_ctr: ...
RECURSIVE WinnerLoop(_, _, _, _)
WinnerLoop(items, i, max_ctr, best) ==
    IF i > Len(items) THEN [winner |-> best, max_ctr |-> max_ctr]
    ELSE IF "ctr" \notin DOMAIN items[i][2] THEN [winner |-> "KeyError", max_ctr |-> max_ctr]
    ELSE IF Greater(items[i][2].ctr, max_ctr)
    THEN WinnerLoop(items, i + 1, items[i][2].ctr, items[i][1])
    ELSE WinnerLoop(items, i + 1, max_ctr, best)

\* Show winner
ShowWinner(td, product_id) ==
    LET items == IF product_id \in DOMAIN td THEN td[product_id] ELSE <<>>
    IN  IF items = <<>> THEN NoBanner
        ELSE LET r == WinnerLoop(items, 1, <<0, 1>>, None)
             IN  IF r.winner = "KeyError" THEN KeyErrorShown
                 ELSE IF r.winner # None /\ Greater(r.max_ctr, <<0, 1>>)
                 THEN WinnerBanner(r.winner, r.max_ctr)
                 ELSE NoBanner

\* Display variants if generated
RenderProduct(R, product_id) ==
    IF product_id \in DOMAIN R.variants
    THEN LET R1 == RenderVariants(R, product_id, 1)
             banner == ShowWinner(R1.test_data, product_id)
         IN  [R1 EXCEPT !.winner = DictSet(@, product_id, banner),
                        !.failed = (banner = KeyErrorShown)]
    ELSE R

\* the handler that keeps the counters of the formulas already tested
GenerateHandlerKeepsCounters(R, product_id, row) ==
    LET new_variants == generate_title_variants(row)
        old == IF product_id \in DOMAIN R.test_data THEN R.test_data[product_id] ELSE <<>>
    IN  [R EXCEPT !.variants = DictSet(@, product_id, new_variants),
                  !.test_data = DictSet(@, product_id,
                      old \o SelectSeq(
                          [i \in 1..Len(new_variants) |->
                              <<new_variants[i].formula,
                                [impressions |-> 0, clicks |-> 0, conversions |-> 0]>>],
                          LAMBDA e : ~OdHas(old, e[1])))]

\* if st.button("Generate Variants"): the new variants and the zeroed counters
GenerateHandler(R, product_id, row) ==
    LET new_variants == generate_title_variants(row)
    IN  [R EXCEPT !.variants = DictSet(@, product_id, new_variants),
                  !.test_data = DictSet(@, product_id,
                      [i \in 1..Len(new_variants) |->
                          <<new_variants[i].formula,
                            [impressions |-> 0, clicks |-> 0, conversions |-> 0]>>] \o <<>>)]

\* the script from the top: nothing rendered, no banner shown yet
Restart(R) == [R EXCEPT !.rendered = {}, !.winner = EmptyDict, !.failed = FALSE]

\* for idx, row in st.session_state.products.iterrows(), from row i on; clicked
\* holds the product whose Generate Variants button was clicked, if one was
RECURSIVE ScriptFrom(_, _, _, _)
ScriptFrom(R, rows, i, clicked) ==
    IF i > Len(rows) \/ R.failed THEN R
    ELSE IF RowId(rows, i) \in clicked
    THEN \* st.rerun(): the script starts again, the button no longer clicked
         ScriptFrom(Restart(GenerateHandler(R, RowId(rows, i), rows[i])), rows, 1, {})
    ELSE ScriptFrom(RenderProduct(R, RowId(rows, i)), rows, i + 1, clicked)

\* one script run for an event, and what it leaves: the widgets not rendered
\* by the run that completed lose their value
RunScript(prods, vs, td, ws, clicked) ==
    LET R0 == [variants |-> vs, test_data |-> td, widgets |-> ws,
               winner |-> EmptyDict, rendered |-> {}, failed |-> FALSE]
        R == IF prods.loaded THEN ScriptFrom(R0, prods.rows, 1, clicked) ELSE R0
    IN  [R EXCEPT !.widgets = [k \in R.rendered |-> R.widgets[k]]]

---------------------------------------------------------------------------
(* The user's events *)

MaxEdits == 2

Blue == <<"B", "l", "u", "e">>

Row(choice) ==
    [k \in {<<"title", "brand", "color", "size", "product_type", "id">>[i] :
                i \in {j \in 1..6 : choice[j] # Absent}} |->
        choice[CHOOSE i \in 1..6 :
                <<"title", "brand", "color", "size", "product_type", "id">>[i] = k]]

\* the feeds the user can upload: one product with brand and title, two
\* products with attributes only, one product with its own id and a title
\* only, and a file that cannot be parsed
Feeds ==
    { [readable |-> TRUE,
       rows |-> <<Row(<<RunningShoe, Nike, Red, Absent, Absent, Absent>>)>>],
      [readable |-> TRUE,
       rows |-> <<Row(<<Absent, Nike, Red, Absent, Shoes, Absent>>),
                  Row(<<Absent, Nike, Blue, Absent, Shoes, Absent>>)>>],
      [readable |-> TRUE,
       rows |-> <<Row(<<Shoe, Absent, Absent, Absent, Absent, <<"A", "1">> >>)>>],
      [readable |-> FALSE, rows |-> <<>>] }

CounterValues(kind) ==
    CASE kind = "imp" -> {0, 50, 100}
      [] kind = "click" -> {0, 10}
      [] kind = "conv" -> {0, 1}

\* the ids of the products on the page
PageIds == {RowId(products.rows, i) : i \in 1..Len(products.rows)}

Init ==
    /\ pc = "page"
    /\ title_in = None
    /\ analysis = None
    /\ product_in = None
    /\ generated = None
    /\ SessionInit

Leave(R) ==
    /\ variants' = R.variants
    /\ test_data' = R.test_data
    /\ widgets' = R.widgets
    /\ winner' = R.winner
    /\ UNCHANGED <<title_in, analysis, product_in, generated>>

\* the user uploads a feed: the upload block, then the page
UploadFeed(file) ==
    /\ pc = "page"
    /\ products' = LoadFeed(file, products)
    /\ \E R \in {RunScript(products', variants, test_data, widgets, {})} : Leave(R)
    /\ pressed' = {}
    /\ UNCHANGED <<pc, edits>>

\* the user clicks Generate Variants of a product on the page
PressGenerate(product_id) ==
    /\ pc = "page"
    /\ product_id \in PageIds
    /\ \E R \in {RunScript(products, variants, test_data, widgets, {product_id})} : Leave(R)
    /\ pressed' = {product_id}
    /\ UNCHANGED <<pc, products, edits>>

\* the user types a new value into one number input of the page
EditCounter(key, value) ==
    /\ pc = "page"
    /\ edits < MaxEdits
    /\ key \in DOMAIN widgets
    /\ value \in CounterValues(key[1])
    /\ value # widgets[key]
    /\ \E R \in {RunScript(products, variants, test_data, DictSet(widgets, key, value), {})} : Leave(R)
    /\ pressed' = {}
    /\ edits' = edits + 1
    /\ UNCHANGED <<pc, products>>

Next ==
    \/ \E file \in Feeds : UploadFeed(file)
    \/ \E product_id \in PageIds : PressGenerate(product_id)
    \/ \E key \in DOMAIN widgets : \E value \in {0, 1, 10, 50, 100} : EditCounter(key, value)

Spec == Init /\ [][Next]_vars

---------------------------------------------------------------------------
(* The rerun that follows Generate Variants, on enumerated widget values *)

\* the product of the page: brand, title, color and size, so all five formulas
WinnerRows == WithIds(<<Row(<<RunningShoe, Nike, Red, Ten, Absent, Absent>>)>>)

WinnerKeys(kind) == {<<kind, ProductId(1), AllFormulaNames[i]>> : i \in 1..5}

\* what the user has typed into the number inputs of the five variants
WidgetInputs ==
    {[k \in WinnerKeys("imp") \cup WinnerKeys("click") \cup WinnerKeys("conv") |->
        IF k[1] = "imp" THEN imps[k]
        ELSE IF k[1] = "click" THEN clicks[k]
        ELSE conv] :
        imps \in [WinnerKeys("imp") -> CounterValues("imp")],
        clicks \in [WinnerKeys("click") -> CounterValues("click")],
        conv \in CounterValues("conv")}

\* Generate Variants has just been handled for the product and st.rerun() called
InitWinner ==
    /\ pc = "rerun"
    /\ title_in = None
    /\ analysis = None
    /\ product_in = None
    /\ generated = None
    /\ products = Loaded(WinnerRows)
    /\ LET R == GenerateHandler(
                    [variants |-> EmptyDict, test_data |-> EmptyDict],
                    ProductId(1), WinnerRows[1])
       IN  variants = R.variants /\ test_data = R.test_data
    /\ widgets \in WidgetInputs
    /\ winner = EmptyDict
    /\ pressed = {ProductId(1)}
    /\ edits = 0

\* the script runs again from the top
Rerun ==
    /\ pc = "rerun"
    /\ \E R \in {RunScript(products, variants, test_data, widgets, {})} : Leave(R)
    /\ pc' = "page"
    /\ UNCHANGED <<products, pressed, edits>>

NextWinner == Rerun

SpecWinner == InitWinner /\ [][NextWinner]_vars

---------------------------------------------------------------------------
(* Properties of analyze_title_quality *)

BannedWords ==
    { <<"s", "a", "l", "e">>,
      <<"f", "r", "e", "e", " ", "s", "h", "i", "p", "p", "i", "n", "g">>,
      <<"b", "e", "s", "t">>,
      <<"c", "h", "e", "a", "p">>,
      <<"b", "u", "y", " ", "n", "o", "w">>,
      <<"n", "e", "w">>,
      <<"h", "o", "t">>,
      <<"!">> }

\* the banned words t contains, case-insensitively
BannedIn(t) == LET lowered == Lower(t) IN {w \in BannedWords : Contains(w, lowered)}

AllCapsRule(t) == IsUpper(t) /\ Len(t) > 10
ExclamationRule(t) == \E i \in 1..Len(t) : t[i] = "!"

AnyRuleFired(t) ==
    \/ Len(t) > 150
    \/ Len(t) < 70
    \/ BannedIn(t) # {}
    \/ AllCapsRule(t)
    \/ ExclamationRule(t)

\* the sum of the penalties of the rules that fire on t
Penalty(t) ==
    (IF Len(t) > 150 THEN 30 ELSE IF Len(t) < 70 THEN 10 ELSE 0)
        + 15 * Cardinality(BannedIn(t))
        + (IF AllCapsRule(t) THEN 10 ELSE 0)
        + (IF ExclamationRule(t) THEN 5 ELSE 0)

\* the number of rules that fire on t
FiredRules(t) ==
    (IF Len(t) > 150 \/ Len(t) < 70 THEN 1 ELSE 0)
        + Cardinality(BannedIn(t))
        + (IF AllCapsRule(t) THEN 1 ELSE 0)
        + (IF ExclamationRule(t) THEN 1 ELSE 0)

StartsWith(prefix, s) ==
    Len(s) >= Len(prefix) /\ SubSeq(s, 1, Len(prefix)) = prefix

ExceedsPrefix ==
    <<"E", "x", "c", "e", "e", "d", "s", " ", "1", "5", "0", " ", "c", "h", "a", "r", "s">>
UnderPrefix ==
    <<"U", "n", "d", "e", "r", " ", "o", "p", "t", "i", "m", "a", "l", " ",
      "l", "e", "n", "g", "t", "h">>

HasExceeds(issues) == \E i \in 1..Len(issues) : StartsWith(ExceedsPrefix, issues[i])
HasUnder(issues) == \E i \in 1..Len(issues) : StartsWith(UnderPrefix, issues[i])

\* C1: the score of every analyzed title is an integer in [0,100], and the
\* issues list is empty exactly when no rule (length > 150, length < 70, a
\* banned word, all-caps with length > 10, a '!') fired for the title.
C1_ScoreRangeAndIssues ==
    pc = "analyzed" =>
        /\ analysis.score \in 0..100
        /\ (analysis.issues = <<>>) <=> ~AnyRuleFired(title_in)

\* a title on which no rule fires has been analyzed and has no issues
C1_Witness ==
    /\ pc = "analyzed"
    /\ ~AnyRuleFired(title_in)
    /\ analysis.issues = <<>>
    /\ analysis.score = 100

\* C2: the score is max(0, 100 - P), P the sum of the penalties of the rules
\* that fire (30 or 10 for the length, 15 per banned word contained, 10 for
\* all caps, 5 for a '!'), and the issues hold one distinct string per fired
\* rule, also when the score is floored at 0.
C2_ScoreIsPenaltySum ==
    pc = "analyzed" =>
        /\ analysis.score = (IF Penalty(title_in) > 100 THEN 0 ELSE 100 - Penalty(title_in))
        /\ Len(analysis.issues) = FiredRules(title_in)
        /\ \A i, j \in 1..Len(analysis.issues) :
              analysis.issues[i] = analysis.issues[j] => i = j

\* a title whose penalties exceed 100 has been analyzed: the floor applies
C2_Witness ==
    /\ pc = "analyzed"
    /\ Penalty(title_in) > 100
    /\ analysis.score = 0
    /\ Len(analysis.issues) = FiredRules(title_in)

\* C3: a title longer than 150 gets the "Exceeds 150 chars" issue, a title
\* shorter than 70 gets the "Under optimal length" issue, no title gets both,
\* and a title of 70 to 150 characters gets neither.
C3_LengthIssues ==
    pc = "analyzed" =>
        /\ Len(title_in) > 150 => HasExceeds(analysis.issues)
        /\ Len(title_in) < 70 => HasUnder(analysis.issues)
        /\ ~(HasExceeds(analysis.issues) /\ HasUnder(analysis.issues))
        /\ (Len(title_in) >= 70 /\ Len(title_in) <= 150) =>
              (~HasExceeds(analysis.issues) /\ ~HasUnder(analysis.issues))

\* a title of exactly 150 characters has been analyzed and has no length issue
C3_Witness ==
    /\ pc = "analyzed"
    /\ Len(title_in) = 150
    /\ ~HasExceeds(analysis.issues)
    /\ ~HasUnder(analysis.issues)

---------------------------------------------------------------------------
(* Properties of generate_title_variants *)

AllFormulas ==
    <<"Brand First", "Product First", "Attribute Rich", "Compact", "SEO Natural">>

\* a field of the record counts as non-empty when it is present and not ''
NonEmpty(product, key) == key \in DOMAIN product /\ product[key] # <<>>

HasProductType(product) ==
    NonEmpty(product, "product_type") \/ NonEmpty(product, "google_product_category")

AttributeCount(product) ==
    Cardinality({k \in {"brand", "color", "size", "material"} : NonEmpty(product, k)})
        + (IF HasProductType(product) THEN 1 ELSE 0)

Precondition(formula, product) ==
    IF formula = "Attribute Rich"
    THEN AttributeCount(product) >= 3
    ELSE NonEmpty(product, "brand") /\ NonEmpty(product, "title")

FormulasOf(list) == [i \in 1..Len(list) |-> list[i].formula]

Qualifies(formula) == Precondition(formula, product_in)

\* C4: the list holds each formula at most once, in the fixed order, and a
\* formula is in it exactly when its precondition holds for the product.
C4_FormulasIffPrecondition ==
    pc = "generated" =>
        FormulasOf(generated) = SelectSeq(AllFormulas, Qualifies)

\* a product with a title, no brand and fewer than 3 attributes gave the empty list
C4_Witness ==
    /\ pc = "generated"
    /\ NonEmpty(product_in, "title")
    /\ ~NonEmpty(product_in, "brand")
    /\ AttributeCount(product_in) < 3
    /\ generated = <<>>

\* the string a formula composes for a product, before the slice
Composed(formula, product) ==
    CASE formula = "Brand First" -> BrandFirstText(product)
      [] formula = "Product First" -> ProductFirstText(product)
      [] formula = "Attribute Rich" -> AttributeText(product)
      [] formula = "Compact" -> CompactText(product)
      [] formula = "SEO Natural" -> NaturalText(product)

\* C5: every variant stores the first 150 characters of the composed string,
\* its length field is the length of the stored title (at most 150), and its
\* score and issues are the analyzer's for the stored title.
C5_TruncatedThenScored ==
    pc = "generated" =>
        \A i \in 1..Len(generated) :
            LET v == generated[i]
                c == Composed(v.formula, product_in)
                a == analyze_title_quality(v.title)
            IN  /\ v.title = SubSeq(c, 1, IF Len(c) < 150 THEN Len(c) ELSE 150)
                /\ v.length = Len(v.title)
                /\ v.length <= 150
                /\ v.score = a.score
                /\ v.issues = IssuesField(a.issues)

\* a composition longer than 150 characters was cut, and the cut changed the analysis
C5_Witness ==
    /\ pc = "generated"
    /\ \E i \in 1..Len(generated) :
          LET v == generated[i]
              c == Composed(v.formula, product_in)
          IN  /\ Len(c) > 150
              /\ v.length = 150
              /\ v.title = SubSeq(c, 1, 150)
              /\ v.score # analyze_title_quality(c).score

NikeProduct ==
    [k \in {"brand", "title", "color", "size"} |->
        CASE k = "brand" -> Nike
          [] k = "title" -> RunningShoe
          [] k = "color" -> Red
          [] k = "size" -> Ten]

NikeBrandFirstTitle ==
    <<"N", "i", "k", "e", " ", "-", " ", "R", "u", "n", "n", "i", "n", "g", " ",
      "S", "h", "o", "e", " ", "-", " ", "R", "e", "d", " ", "-", " ", "1", "0">>

Under30Text ==
    <<"U", "n", "d", "e", "r", " ", "o", "p", "t", "i", "m", "a", "l", " ",
      "l", "e", "n", "g", "t", "h", " ", "(", "3", "0", " ", "<", " ", "7", "0", ")">>

\* C6 as stated: the Brand First variant of the Nike product is exactly
\* "Nike - Running Shoe - Red - 10" with length 31, score 100 and no issues.
C6_AsStated ==
    (pc = "generated" /\ product_in = NikeProduct) =>
        /\ Len(generated) >= 1
        /\ generated[1].formula = "Brand First"
        /\ generated[1].title = NikeBrandFirstTitle
        /\ generated[1].length = 31
        /\ generated[1].score = 100
        /\ generated[1].issues = <<"N", "o", "n", "e">>

\* C6 (amended): the Brand First variant of the Nike product is exactly
\* "Nike - Running Shoe - Red - 10", its length is 30, its score is 90 and
\* its only issue is "Under optimal length (30 < 70)".
C6_NikeBrandFirst ==
    (pc = "generated" /\ product_in = NikeProduct) =>
        /\ Len(generated) >= 1
        /\ generated[1].formula = "Brand First"
        /\ generated[1].title = NikeBrandFirstTitle
        /\ generated[1].length = 30
        /\ generated[1].score = 90
        /\ generated[1].issues = Under30Text

\* the Nike product has been handed to the generator
C6_Witness ==
    /\ pc = "generated"
    /\ product_in = NikeProduct
    /\ Len(generated) = 5

HasFormula(list, formula) == \E i \in 1..Len(list) : list[i].formula = formula

\* C9: Brand First, Product First, Compact and SEO Natural are all in the list
\* or all absent, so the list has 0, 1, 4 or 5 entries, and a list of one
\* entry holds Attribute Rich.
C9_FourTogether ==
    pc = "generated" =>
        /\ \A f, g \in {"Brand First", "Product First", "Compact", "SEO Natural"} :
              HasFormula(generated, f) <=> HasFormula(generated, g)
        /\ Len(generated) \in {0, 1, 4, 5}
        /\ Len(generated) = 1 => generated[1].formula = "Attribute Rich"

\* a list of exactly one entry, Attribute Rich, was returned for a product with a brand
C9_Witness ==
    /\ pc = "generated"
    /\ Len(generated) = 1
    /\ generated[1].formula = "Attribute Rich"
    /\ NonEmpty(product_in, "brand")

---------------------------------------------------------------------------
(* Properties of the page *)

\* clicks / impressions * 100 as a fraction <<numerator, denominator>>, 0 when
\* there are no impressions
Rate(entry) ==
    IF entry.impressions > 0 THEN <<entry.clicks * 100, entry.impressions>> ELSE <<0, 1>>

RateLess(a, b) == a[1] * b[2] < b[1] * a[2]
RateEqual(a, b) == a[1] * b[2] = b[1] * a[2]

\* what the claim says is shown for the counters of a product
WinnerAsClaimed(items, banner) ==
    IF \A i \in 1..Len(items) : ~RateLess(<<0, 1>>, Rate(items[i][2]))
    THEN banner = NoBanner
    ELSE /\ banner.kind = "winner"
         /\ \E w \in 1..Len(items) :
              /\ items[w][1] = banner.formula
              /\ RateEqual(banner.ctr, Rate(items[w][2]))
              /\ items[w][2].impressions > 0
              /\ \A j \in 1..Len(items) : ~RateLess(Rate(items[w][2]), Rate(items[j][2]))
              /\ \A j \in 1..(w - 1) : RateLess(Rate(items[j][2]), Rate(items[w][2]))

\* C7: with ctr = clicks / impressions * 100 (0 without impressions), the
\* winner shown is the formula of greatest ctr, the first in iteration order
\* among those tied for it, and no winner is shown exactly when no formula has
\* ctr > 0, so a formula without impressions never wins.
C7_WinnerIsFirstGreatest ==
    pc = "page" =>
        \A product_id \in DOMAIN winner :
            /\ \A i \in 1..Len(test_data[product_id]) :
                  RateEqual(test_data[product_id][i][2].ctr, Rate(test_data[product_id][i][2]))
            /\ WinnerAsClaimed(test_data[product_id], winner[product_id])

\* the example of the claim: 100 impressions / 10 clicks for the first formula,
\* 50 / 10 for the second, and the second is shown as the winner
C7_Witness ==
    /\ pc = "page"
    /\ ProductId(1) \in DOMAIN winner
    /\ LET items == test_data[ProductId(1)]
       IN  /\ Len(items) = 5
           /\ items[1][2].impressions = 100 /\ items[1][2].clicks = 10
           /\ items[2][2].impressions = 50 /\ items[2][2].clicks = 10
           /\ \A i \in 3..5 : items[i][2].impressions = 0
           /\ winner[ProductId(1)] = WinnerBanner(items[2][1], <<20, 1>>)

\* the row of the page with this product id
RowOf(product_id) ==
    products.rows[CHOOSE i \in 1..Len(products.rows) : RowId(products.rows, i) = product_id]

ZeroCounters(entry) ==
    entry.impressions = 0 /\ entry.clicks = 0 /\ entry.conversions = 0

\* C8: when Generate Variants was pressed for a product, its variant set is
\* the newly generated list and, the page rendered again, its impressions,
\* clicks and conversions are zero for every formula.
C8_RegenerateResets ==
    pc = "page" =>
        \A product_id \in pressed :
            /\ variants[product_id] = generate_title_variants(RowOf(product_id))
            /\ OdKeys(test_data[product_id]) = FormulasOf(variants[product_id])
            /\ \A i \in 1..Len(test_data[product_id]) :
                  ZeroCounters(test_data[product_id][i][2])

\* C10: every product with a variant set has counters whose keys are the
\* formulas of that set, in the same order; every entry the winner loop read
\* had a ctr, and a winner shown is a formula of the current variant set.
C10_CountersMatchVariants ==
    pc = "page" =>
        /\ \A product_id \in DOMAIN variants :
              /\ product_id \in DOMAIN test_data
              /\ OdKeys(test_data[product_id]) = FormulasOf(variants[product_id])
        /\ \A product_id \in DOMAIN winner :
              /\ winner[product_id] # KeyErrorShown
              /\ \A i \in 1..Len(test_data[product_id]) :
                    "ctr" \in DOMAIN test_data[product_id][i][2]
              /\ winner[product_id].kind = "winner" =>
                    HasFormula(variants[product_id], winner[product_id].formula)

\* a product was regenerated from a feed that gives it other formulas, its
\* counters were edited, and a winner is shown for it
C10_Witness ==
    /\ pc = "page"
    /\ \E product_id \in DOMAIN winner :
          /\ winner[product_id].kind = "winner"
          /\ FormulasOf(variants[product_id]) = <<"Attribute Rich">>
          /\ OdKeys(test_data[product_id]) = <<"Attribute Rich">>

====
